---- MODULE Spec2Model ----
(***************************************************************************)
(* logapi: per-owner log files keyed by (month, filename).  Recent months  *)
(* live as plain files under storage/<owner>/<month>/; stale months are    *)
(* rolled into storage/<owner>/<month>.tar.<format> by the rotation sweep. *)
(*                                                                         *)
(* The state is the filesystem below the storage root, the server's        *)
(* in-memory archive cache (Server.tarFS), and the position of every       *)
(* request handler and of the background sweep between two I/O steps.      *)
(***************************************************************************)
EXTENDS Integers, Sequences, FiniteSets, TLC

\* ------------------------------------------------------------------ bounds
\* Number of write() calls io.Copy needs for one request body.
BodyLen == 2
\* Number of distinct request bodies; body b is the byte b repeated BodyLen times.
NumBodies == 2
\* Number of storage faults (failed create/write/close/remove) in one behaviour.
MaxFaults == 1
\* Number of rotation sweeps in one behaviour.
MaxSweeps == 2
\* Number of entries of a container that was not written by the rotation.
MaxEntries == 3

\* --------------------------------------------------------------- universe
\* os.ReadDir and filepath.Walk deliver names in lexical order.
OwnerOrder == <<"o1", "o2">>
MonthOrder == <<"2025-01", "2025-02">>
PathOrder == <<"a", "a.tmp", "a.tmp.tmp">>
Range(s) == {s[i] : i \in 1..Len(s)}
Owners == Range(OwnerOrder)
Months == Range(MonthOrder)
\* X-File-Name values.  "a.tmp" is an ordinary name that happens to equal
\* the temporary path UploadLog derives for "a".
Names == {"a", "a.tmp"}
Uploaders == {"u1", "u2"}
ReaderOrder == <<"r1", "r2">>
Readers == Range(ReaderOrder)

\* The rotation format the server was constructed with (the -compress default).
compress == "zst"

\* New(auth, storage, compress): only the three formats that can be written
\* are accepted; anything else, bz2 included, is an error.
New(format) ==
    IF format # "zst" /\ format # "gz" /\ format # "xz"
    THEN [err |-> TRUE, compress |-> ""]
    ELSE [err |-> FALSE, compress |-> format]

\* ---------------------------------------------------------------- calendar
\* staleAfter = 93 * 24 * time.Hour, in days.
staleAfter == 93

Leap(y) == (y % 4 = 0 /\ y % 100 # 0) \/ y % 400 = 0

DaysIn(y, m) ==
    IF m = 2 THEN (IF Leap(y) THEN 29 ELSE 28)
    ELSE IF m \in {4, 6, 9, 11} THEN 30 ELSE 31

\* time.Date(y, m, d, ...): a month outside 1..12 and a day past the end of
\* its month are normalised into the neighbouring year or month.
RECURSIVE Date(_, _, _, _)
Date(y, m, d, t) ==
    IF m < 1 THEN Date(y - 1, m + 12, d, t)
    ELSE IF m > 12 THEN Date(y + 1, m - 12, d, t)
    ELSE IF d < 1 THEN Date(y, m - 1, d + (IF m = 1 THEN 31 ELSE DaysIn(y, m - 1)), t)
    ELSE IF d > DaysIn(y, m) THEN Date(y, m + 1, d - DaysIn(y, m), t)
    ELSE [y |-> y, m |-> m, d |-> d, t |-> t]

\* t.AddDate(years, months, days)
AddDate(t, years, months, days) == Date(t.y + years, t.m + months, t.d + days, t.t)

\* t.Add(d) for a duration d of whole days.
Add(t, days) == Date(t.y, t.m, t.d + days, t.t)

Instant(t) == ((t.y * 12 + t.m) * 32 + t.d) * 2 + t.t
\* t.Before(u), t.After(u)
Before(t, u) == Instant(t) < Instant(u)
After(t, u) == Instant(t) > Instant(u)

\* time.Parse("2006-01", date): the first instant of the month, or an error.
Parse(date) ==
    CASE date = "2025-01" -> [err |-> FALSE, time |-> Date(2025, 1, 1, 0)]
      [] date = "2025-02" -> [err |-> FALSE, time |-> Date(2025, 2, 1, 0)]
      [] OTHER -> [err |-> TRUE, time |-> Date(1, 1, 1, 0)]

\* X-File-Date values: the months, a month number that does not exist, and
\* the empty string of a missing header.
Dates == Months \cup {"2025-13", ""}

\* The window with last month counted back from today instead of from the
\* first of the current month.
DateInRangeSinceToday(t, dateTime) ==
    LET lastMonth == AddDate(t, 0, -1, 0)
        tomorrow == AddDate(t, 0, 0, 1)
    IN  ~(Before(dateTime, lastMonth) \/ After(dateTime, tomorrow))

\* UploadLog's window: the date is rejected when it is before the first of
\* last month or after now plus one day.
DateInRange(t, dateTime) ==
    LET firstOfCurrentMonth == Date(t.y, t.m, 1, 0)
        firstOfLastMonth == AddDate(firstOfCurrentMonth, 0, -1, 0)
        tomorrow == AddDate(t, 0, 0, 1)
    IN  ~(Before(dateTime, firstOfLastMonth) \/ After(dateTime, tomorrow))

\* The bytes of a name: the digits '0'..'9' are 48..57, '-' is 45.
Bytes(name) ==
    CASE name = "2025-01" -> <<50, 48, 50, 53, 45, 48, 49>>
      [] name = "2025-02" -> <<50, 48, 50, 53, 45, 48, 50>>
      [] OTHER -> <<>>

\* t.Format("2006-01"): four digits of the year, '-', two digits of the month.
Format(t) ==
    LET digit(n, unit) == 48 + ((n \div unit) % 10)
    IN  <<digit(t.y, 1000), digit(t.y, 100), digit(t.y, 10), digit(t.y, 1),
          45, digit(t.m, 10), digit(t.m, 1)>>

\* a < b on Go strings: bytewise, a proper prefix comes first.
RECURSIVE StrLess(_, _)
StrLess(a, b) ==
    IF b = <<>> THEN FALSE
    ELSE IF a = <<>> THEN TRUE
    ELSE IF Head(a) # Head(b) THEN Head(a) < Head(b)
    ELSE StrLess(Tail(a), Tail(b))

\* The test with thenName taken from now itself, the window left out.
StaleSinceToday(t, stale, dateName) ==
    ~Parse(dateName).err /\ StrLess(Bytes(dateName), Format(t))

\* CompressAll's test of one directory name: it parses as a month and it is
\* not the case that dateName >= thenName, thenName the month of now - stale.
Stale(t, stale, dateName) ==
    LET then == Add(t, 0 - stale)
        thenName == Format(then)
    IN  ~Parse(dateName).err /\ StrLess(Bytes(dateName), thenName)

\* The first instant at which CompressAll finds month directory date stale:
\* then = now - staleAfter is in a later month (dateName < thenName).
StaleFrom(date) == AddDate(AddDate(Parse(date).time, 0, 1, 0), 0, 0, staleAfter)

\* The clock values a request can arrive at: every day from two months
\* before the first month to two months after the last, at midnight and later.
Clock ==
    {c \in [y : {2024, 2025}, m : 1..12, d : 1..31, t : 0..1] :
        /\ c.d <= DaysIn(c.y, c.m)
        /\ c.y = 2024 => c.m >= 11
        /\ c.y = 2025 => c.m <= 4}

\* The server is started in the second month: both months are open.
StartTime == Date(2025, 2, 1, 1)

\* The elements of a slash-separated path.  An X-File-Name value is used as
\* it arrives: it may hold separators and ".." elements.
Segments(name) ==
    CASE name = "../2025-02/a" -> <<"..", "2025-02", "a">>
      [] name = "../../o2/2025-01/a" -> <<"..", "..", "o2", "2025-01", "a">>
      [] OTHER -> <<name>>

\* filepath.Clean: a ".." element removes the element before it.
RECURSIVE Clean(_, _)
Clean(done, rest) ==
    IF rest = <<>> THEN done
    ELSE IF Head(rest) = ".." /\ done # <<>>
         THEN Clean(SubSeq(done, 1, Len(done) - 1), Tail(rest))
         ELSE Clean(Append(done, Head(rest)), Tail(rest))

\* filepath.Join(elem...), below the storage root: the elements are joined
\* with separators and the result is cleaned.
Join(dir, name) == Clean(<<>>, dir \o Segments(name))

\* tmpPath := storagePath + ".tmp"
TmpPath(name) == name \o ".tmp"

\* Every directory entry name an upload can create inside a month directory.
Paths == Names \cup {TmpPath(n) : n \in Names}

Body(b) == [i \in 1..BodyLen |-> b]
Bodies == {Body(b) : b \in 1..NumBodies}

\* A prefix of a byte sequence: what a read that stops early delivers.
Prefixes(s) == {SubSeq(s, 1, k) : k \in 0..Len(s)}

Max(a, b) == IF a >= b THEN a ELSE b

\* write(fd, byte) at file offset off: bytes between the old end of the file
\* and the offset read as 0 (a hole).
WriteAt(c, off, byte) ==
    [i \in 1..Max(Len(c), off + 1) |->
        IF i = off + 1 THEN byte ELSE IF i <= Len(c) THEN c[i] ELSE 0]

Put(f, p, c) == [q \in (DOMAIN f) \cup {p} |-> IF q = p THEN c ELSE f[q]]
Del(f, p) == [q \in (DOMAIN f) \ {p} |-> f[q]]

VARIABLES
    dirs,      \* dirs[o][m]: the live directory storage/o/m exists
    files,     \* files[o][m]: entry name -> bytes, the files of storage/o/m
    tars,      \* tars[o][m]: the container file storage/o/m.tar.<compress>
    tarFS,     \* Server.tarFS: date -> TarFS (the archive cache)
    closed,    \* months older than now - staleAfter (no longer accepted by upload)
    up,        \* up[u]: an UploadLog handler between two steps
    rd,        \* rd[r]: a GetFile / ListFiles handler between two steps
    sw,        \* the background CompressAll sweep between two steps
    last,      \* history: last[o][m][n] = body of the latest upload answered 201 (0: none)
    hist,      \* history of the sweeps (see HistInit)
    faults,    \* number of storage faults so far
    now,       \* the clock (time.Now().UTC()): [y, m, d, t], t = 0 at 00:00:00
    legacy     \* legacy[o][m]: the container file storage/o/m.tar.bz2

vars == <<dirs, files, tars, tarFS, closed, up, rd, sw, last, hist, faults, now, legacy>>

\* ------------------------------------------------------------- containers
\* A container file.  entries is the tar stream handed to the compressor:
\* one entry per header written (type "reg" for tar.TypeReg, "dir" for any
\* other typeflag), data shorter than size when the payload write was cut
\* short.  disk is what has reached the file: "empty" (created,
\* nothing flushed), "partial" (some compressed bytes, stream not finished)
\* or "complete" (the compressor was closed and every byte is in the file).
NoTar == [exists |-> FALSE, entries |-> <<>>, disk |-> "empty"]

Truncated(e) == Len(e.data) < e.size

\* The in-memory index of one container (type TarFS).
NoFS == [path |-> <<>>, indices |-> <<>>, sizes |-> <<>>]

\* hdr.Typeflag == tar.TypeReg
IsReg(e) == e.type = "reg"

MemberNames(c) == {c.entries[i].name : i \in {k \in 1..Len(c.entries) : IsReg(c.entries[k])}}

\* fs.indices[hdr.Name] = i for every regular entry in turn: the last one stays.
LastOrdinal(c, nm) ==
    CHOOSE i \in 0..(Len(c.entries) - 1) :
        /\ c.entries[i + 1].name = nm /\ IsReg(c.entries[i + 1])
        /\ \A j \in 0..(Len(c.entries) - 1) :
              c.entries[j + 1].name = nm /\ IsReg(c.entries[j + 1]) => j <= i

\* The decompressed stream of a container can be read to its end without error.
\* An empty zstd stream decodes as an empty archive; an empty gzip or xz
\* stream, and any stream cut before its end, is a decode error.
Readable(c) ==
    /\ c.exists
    /\ \/ c.disk = "complete"
       \/ c.disk = "empty" /\ compress = "zst"

\* NewTarFS(path): scan the whole container, index every regular entry.
NewTarFS(o, m) ==
    LET c == tars[o][m]
        members == IF c.disk = "complete" THEN c ELSE [c EXCEPT !.entries = <<>>]
    IN  IF ~Readable(c) \/ (c.disk = "complete" /\ \E i \in 1..Len(c.entries) : Truncated(c.entries[i]))
        THEN [err |-> TRUE, fs |-> NoFS]
        ELSE [err |-> FALSE,
              fs  |-> [path    |-> <<o, m>>,
                       indices |-> [nm \in MemberNames(members) |-> LastOrdinal(members, nm)],
                       sizes   |-> [nm \in MemberNames(members) |->
                                       members.entries[LastOrdinal(members, nm) + 1].size]]]

\* fs.Get(path): the responses GetFile can produce from the archive.
\* Get opens the container, replays it up to the recorded ordinal, checks the
\* entry name and returns the tar reader - after its deferred f.Close() has
\* run.  The caller's io.Copy then delivers what the decompressor had
\* buffered before the close: any prefix of the payload, the whole of it
\* when the rest of the container fitted into the buffers.  A container
\* whose stream is cut short decodes up to the cut: the replay fails when
\* the cut comes before the entry, and reaches the entry when it comes later.
TarGet(fs, path) ==
    IF path \notin DOMAIN fs.indices
    THEN {[code |-> 404, body |-> <<>>]}
    ELSE LET c == tars[fs.path[1]][fs.path[2]]
             index == fs.indices[path]
         IN  IF \/ ~c.exists
                \/ c.disk = "empty"
                \/ index + 1 > Len(c.entries)
                \/ \E j \in 1..index : Truncated(c.entries[j])
                \/ c.entries[index + 1].name # path
             THEN {[code |-> 404, body |-> <<>>]}
             ELSE {[code |-> 200, body |-> b] : b \in Prefixes(c.entries[index + 1].data)}
                  \cup (IF c.disk = "partial" THEN {[code |-> 404, body |-> <<>>]} ELSE {})

\* fs.EntryPaths()
EntryPaths(fs) == DOMAIN fs.indices

\* ------------------------------------------------------------ initial state
\* err: the error code of the JSON error response ("": none).
IdleUp == [pc |-> "idle", user |-> "", date |-> "", name |-> "", body |-> 0, off |-> 0, fd |-> "",
           err |-> ""]
\* want, rot and orig are history fields: what the request is owed.
\*   want: body of the latest upload answered 201 for the key when the request
\*         was issued (0: none, or replaced by a later upload since);
\*   rot:  state of the rotation of (user, date) when the request was issued;
\*   orig: the bytes the live file of that name held when that rotation began.
\* months: the result list of ListMonths; pos, end: NewTarFS's loop counter i
\* and the number of entries its scan will meet.
IdleRd == [pc |-> "idle", op |-> "", user |-> "", date |-> "", name |-> "", tfs |-> NoFS,
           code |-> 0, body |-> <<>>, names |-> {}, live |-> FALSE,
           want |-> 0, rot |-> "none", orig |-> <<>>,
           months |-> <<>>, pos |-> 0, end |-> 0]
\* open: the writers of the container not yet closed ("tw", "zw", "f");
\* bad: the writers in an error state; err: the walk returned an error.
IdleSw == [pc |-> "idle", then |-> {}, users |-> <<>>, dates |-> <<>>, user |-> "", date |-> "",
           walk |-> <<>>, err |-> FALSE, open |-> {}, bad |-> {}, ret |-> ""]
\* History of the sweeps.
\*   eligible, tried: the (owner, month) pairs that were eligible when the
\*       current sweep began, and those it called CompressAndRemove on;
\*   rot[o][m]: "none", "running", "ok" (the latest rotate call returned nil)
\*       or "failed" (it returned an error);
\*   src[o][m], had[o][m]: the live files and the container at the start of
\*       the latest rotate call; dir[o][m]: the live directory existed then;
\*   fault: the step of the running rotate call that failed ("": none);
\*   closes: the order in which the running rotate call closed its writers;
\*   sweeps: number of sweeps begun.
HistInit == [eligible |-> {}, tried |-> {},
             rot |-> [o \in Owners |-> [m \in Months |-> "none"]],
             src |-> [o \in Owners |-> [m \in Months |-> <<>>]],
             had |-> [o \in Owners |-> [m \in Months |-> NoTar]],
             dir |-> [o \in Owners |-> [m \in Months |-> FALSE]],
             fault |-> "", closes |-> <<>>, sweeps |-> 0]

\* The server was constructed (New succeeded) over a storage root that holds
\* the legacy archives old and the containers packed; the clock is at t and
\* the requests served so far have left cache in the archive cache.
Started(t, old, packed, cache) ==
    /\ ~New(compress).err
    /\ now = t
    /\ legacy = old
    /\ dirs = [o \in Owners |-> [m \in Months |-> FALSE]]
    /\ files = [o \in Owners |-> [m \in Months |-> <<>>]]
    /\ tars = packed
    /\ tarFS = cache
    /\ closed = {m \in Months : ~Before(t, StaleFrom(m))}
    /\ up = [u \in Uploaders |-> IdleUp]
    /\ rd = [r \in Readers |-> IdleRd]
    /\ sw = IdleSw
    /\ last = [o \in Owners |-> [m \in Months |-> [n \in Names |-> 0]]]
    /\ hist = HistInit
    /\ faults = 0

\* The server has just been constructed: New makes an empty cache.
Start(t, old, packed) == Started(t, old, packed, <<>>)

NoArchives == [o \in Owners |-> [m \in Months |-> NoTar]]

Init == Start(StartTime, NoArchives, NoArchives)

\* ------------------------------------------------------------------ upload
\* storagePath := filepath.Join(filepath.Join(s.storage, username, date), name),
\* below the storage root: owner directory, month directory, entry name.
StoragePath(u) == Join(<<up[u].user, up[u].date>>, up[u].name)

\* os.Rename(old, new) inside storage/o/m, as seen by the open descriptors
\* of the other uploads: a descriptor follows its file to the new name, a
\* descriptor of the replaced file is left with an unlinked file ("").
Renamed(u, o, m, old, new) ==
    [v \in Uploaders |->
        IF v = u THEN IdleUp
        ELSE IF StoragePath(v)[1] = o /\ StoragePath(v)[2] = m /\ up[v].fd = old
             THEN [up[v] EXCEPT !.fd = new]
        ELSE IF StoragePath(v)[1] = o /\ StoragePath(v)[2] = m /\ up[v].fd = new
             THEN [up[v] EXCEPT !.fd = ""]
        ELSE up[v]]

\* UploadLog, up to os.MkdirAll: credentials, headers and date are valid
\* (the month is inside the accepted window) and the month directory is made.
UploadBegin(u, o, m, n, b) ==
    /\ up[u].pc = "idle"
    /\ m \notin closed
    /\ ~Parse(m).err /\ DateInRange(now, Parse(m).time)
    /\ dirs' = [dirs EXCEPT ![o][m] = TRUE]
    /\ up' = [up EXCEPT ![u] = [IdleUp EXCEPT !.pc = "create", !.user = o, !.date = m,
                                              !.name = n, !.body = b]]
    /\ UNCHANGED <<files, tars, tarFS, closed, rd, sw, last, hist, faults, now, legacy>>

\* The validation with os.MkdirAll moved in front of the window check: a
\* date that parses gets its directory before it is rejected.
UploadRejectAfterMkdir(u, o, date, n, why) ==
    /\ up[u].pc = "idle"
    /\ \/ why = "unauthorized"
       \/ why = "missing_headers" /\ (date = "" \/ n = "")
       \/ why = "invalid_date" /\ date # "" /\ n # "" /\ Parse(date).err
       \/ /\ why = "date_out_of_range" /\ date # "" /\ n # ""
          /\ ~Parse(date).err /\ ~DateInRange(now, Parse(date).time)
    /\ dirs' = IF why = "date_out_of_range" THEN [dirs EXCEPT ![o][date] = TRUE] ELSE dirs
    /\ up' = [up EXCEPT ![u] = [IdleUp EXCEPT !.pc = "rejected", !.user = o, !.date = date,
                                              !.name = n, !.err = why]]
    /\ UNCHANGED <<files, tars, tarFS, closed, rd, sw, last, hist, faults, now, legacy>>

\* UploadLog returns from one of its validation checks, in the order of the
\* code: credentials, both headers present, the date parses, the date is in
\* the window.  jsonError writes the response; nothing else is done.
UploadReject(u, o, date, n, why) ==
    /\ up[u].pc = "idle"
    /\ \/ why = "unauthorized"
       \/ why = "missing_headers" /\ (date = "" \/ n = "")
       \/ why = "invalid_date" /\ date # "" /\ n # "" /\ Parse(date).err
       \/ /\ why = "date_out_of_range" /\ date # "" /\ n # ""
          /\ ~Parse(date).err /\ ~DateInRange(now, Parse(date).time)
    /\ up' = [up EXCEPT ![u] = [IdleUp EXCEPT !.pc = "rejected", !.user = o, !.date = date,
                                              !.name = n, !.err = why]]
    /\ UNCHANGED <<dirs, files, tars, tarFS, closed, rd, sw, last, hist, faults, now, legacy>>

\* The handler of a rejected upload has returned.
UploadRejected(u) ==
    /\ up[u].pc = "rejected"
    /\ up' = [up EXCEPT ![u] = IdleUp]
    /\ UNCHANGED <<dirs, files, tars, tarFS, closed, rd, sw, last, hist, faults, now, legacy>>

\* os.Create(tmpPath): creates the file, or truncates the file already there.
UploadCreate(u) ==
    LET o == StoragePath(u)[1]
        m == StoragePath(u)[2]
        tmp == TmpPath(StoragePath(u)[3])
    IN  /\ up[u].pc = "create"
        /\ IF dirs[o][m]
           THEN /\ files' = [files EXCEPT ![o][m] = Put(@, tmp, <<>>)]
                /\ up' = [up EXCEPT ![u].pc = "copy", ![u].fd = tmp]
           ELSE /\ up' = [up EXCEPT ![u] = IdleUp]
                /\ UNCHANGED files
        /\ UNCHANGED <<dirs, tars, tarFS, closed, rd, sw, last, hist, faults, now, legacy>>

\* io.Copy(tmpFile, r.Body): one write at the descriptor's own offset.
UploadCopy(u) ==
    LET o == StoragePath(u)[1]
        m == StoragePath(u)[2]
        fd == up[u].fd
    IN  /\ up[u].pc = "copy"
        /\ up[u].off < BodyLen
        /\ IF fd # ""
           THEN files' = [files EXCEPT ![o][m][fd] = WriteAt(@, up[u].off, up[u].body)]
           ELSE UNCHANGED files
        /\ up' = [up EXCEPT ![u].off = @ + 1]
        /\ UNCHANGED <<dirs, tars, tarFS, closed, rd, sw, last, hist, faults, now, legacy>>

\* io.Copy fails (storage error, or the client went away): 500, the handler
\* returns; the deferred tmpFile.Close() is all the cleanup there is.
UploadCopyFail(u) ==
    /\ up[u].pc = "copy"
    /\ up[u].off < BodyLen
    /\ up' = [up EXCEPT ![u] = IdleUp]
    /\ UNCHANGED <<dirs, files, tars, tarFS, closed, rd, sw, last, hist, faults, now, legacy>>

\* os.Rename(tmpPath, storagePath), then 201; 500 when tmpPath is gone.
\* The history in last and want follows the uploads whose name is a plain
\* entry name of the owner's month directory.
UploadRename(u) ==
    LET o == StoragePath(u)[1]
        m == StoragePath(u)[2]
        n == StoragePath(u)[3]
        tmp == TmpPath(n)
        own == up[u].name \in Names
    IN  /\ up[u].pc = "copy"
        /\ up[u].off = BodyLen
        /\ IF tmp \in DOMAIN files[o][m]
           THEN /\ files' = [files EXCEPT ![o][m] = Del(Put(@, n, @[tmp]), tmp)]
                /\ up' = Renamed(u, o, m, tmp, n)
                /\ last' = IF own THEN [last EXCEPT ![o][m][n] = up[u].body] ELSE last
                /\ rd' = [r \in Readers |->
                            IF own /\ rd[r].user = o /\ rd[r].date = m /\ rd[r].name = n
                            THEN [rd[r] EXCEPT !.want = 0] ELSE rd[r]]
           ELSE /\ up' = [up EXCEPT ![u] = IdleUp]
                /\ UNCHANGED <<files, last, rd, now, legacy>>
        /\ UNCHANGED <<dirs, tars, tarFS, closed, sw, hist, faults, now, legacy>>

UploadLog(u, o, m, n, b) ==
    \/ UploadBegin(u, o, m, n, b)
    \/ UploadCreate(u)
    \/ UploadCopy(u)
    \/ UploadCopyFail(u)
    \/ UploadRename(u)

\* ------------------------------------------------------- get and list-files
\* What a request issued now for (o, m, n) is owed (history only).
Owed(o, m, n) ==
    [want |-> last[o][m][n],
     rot  |-> IF n \in DOMAIN hist.src[o][m] THEN hist.rot[o][m] ELSE "none",
     orig |-> IF n \in DOMAIN hist.src[o][m] THEN hist.src[o][m][n] ELSE <<>>]

\* GetFile, up to the live lookup: os.Open(filePath) and io.Copy when it opens.
GetBegin(r, o, m, n) ==
    /\ rd[r].pc = "idle"
    /\ LET owed == Owed(o, m, n)
           req == [IdleRd EXCEPT !.op = "get", !.user = o, !.date = m, !.name = n,
                                 !.want = owed.want, !.rot = owed.rot, !.orig = owed.orig]
       IN  IF n \in DOMAIN files[o][m]
           THEN rd' = [rd EXCEPT ![r] = [req EXCEPT !.pc = "done", !.code = 200,
                                                    !.body = files[o][m][n], !.live = TRUE]]
           ELSE rd' = [rd EXCEPT ![r] = [req EXCEPT !.pc = "lookup"]]
    /\ UNCHANGED <<dirs, files, tars, tarFS, closed, up, sw, last, hist, faults, now, legacy>>

\* ListFiles, up to os.ReadDir(dateDir): every entry name of the live directory.
ListBegin(r, o, m) ==
    /\ rd[r].pc = "idle"
    /\ LET req == [IdleRd EXCEPT !.op = "list", !.user = o, !.date = m]
       IN  IF dirs[o][m]
           THEN rd' = [rd EXCEPT ![r] = [req EXCEPT !.pc = "done", !.code = 201,
                                                    !.names = DOMAIN files[o][m], !.live = TRUE]]
           ELSE rd' = [rd EXCEPT ![r] = [req EXCEPT !.pc = "lookup"]]
    /\ UNCHANGED <<dirs, files, tars, tarFS, closed, up, sw, last, hist, faults, now, legacy>>

\* tfs, ok := s.tarFS[date] under the read lock.
CacheLookup(r) ==
    /\ rd[r].pc = "lookup"
    /\ IF rd[r].date \in DOMAIN tarFS
       THEN rd' = [rd EXCEPT ![r].pc = "use", ![r].tfs = tarFS[rd[r].date]]
       ELSE rd' = [rd EXCEPT ![r].pc = "build"]
    /\ UNCHANGED <<dirs, files, tars, tarFS, closed, up, sw, last, hist, faults, now, legacy>>

\* NewTarFS's TarFS put into the cache before the loop has filled it.
CacheBuildShared(r) ==
    /\ rd[r].pc = "build"
    /\ LET c == tars[rd[r].user][rd[r].date]
           fs == [NoFS EXCEPT !.path = <<rd[r].user, rd[r].date>>]
       IN  IF NewTarFS(rd[r].user, rd[r].date).err
           THEN /\ rd' = [rd EXCEPT ![r].pc = "done", ![r].code = 404]
                /\ UNCHANGED tarFS
           ELSE /\ rd' = [rd EXCEPT ![r].pc = "scan", ![r].pos = 0,
                                    ![r].end = IF c.disk = "complete" THEN Len(c.entries) ELSE 0,
                                    ![r].tfs = fs]
                /\ tarFS' = Put(tarFS, rd[r].date, fs)
    /\ UNCHANGED <<dirs, files, tars, closed, up, sw, last, hist, faults, now, legacy>>

\* tfs, err = tarfs.NewTarFS(storage/user/date.tar.<compress>): the container
\* is opened and its stream decoded; 404 when that fails anywhere.  Otherwise
\* NewTarFS has an empty TarFS of its own and starts its loop over the entries.
CacheBuild(r) ==
    /\ rd[r].pc = "build"
    /\ LET c == tars[rd[r].user][rd[r].date]
       IN  IF NewTarFS(rd[r].user, rd[r].date).err
           THEN rd' = [rd EXCEPT ![r].pc = "done", ![r].code = 404]
           ELSE rd' = [rd EXCEPT ![r].pc = "scan", ![r].pos = 0,
                                 ![r].end = IF c.disk = "complete" THEN Len(c.entries) ELSE 0,
                                 ![r].tfs = [NoFS EXCEPT !.path = <<rd[r].user, rd[r].date>>]]
    /\ UNCHANGED <<dirs, files, tars, tarFS, closed, up, sw, last, hist, faults, now, legacy>>

\* One turn of NewTarFS's loop: tarReader.Next(), and for a regular entry
\* indices[hdr.Name] = i, sizes[hdr.Name] = hdr.Size and the payload skipped;
\* at io.EOF the finished TarFS is returned to the handler.
CacheScan(r) ==
    /\ rd[r].pc = "scan"
    /\ IF rd[r].pos < rd[r].end
       THEN LET hdr == tars[rd[r].tfs.path[1]][rd[r].tfs.path[2]].entries[rd[r].pos + 1]
            IN  rd' = [rd EXCEPT ![r].pos = @ + 1,
                                 ![r].tfs.indices = IF IsReg(hdr) THEN Put(@, hdr.name, rd[r].pos) ELSE @,
                                 ![r].tfs.sizes = IF IsReg(hdr) THEN Put(@, hdr.name, hdr.size) ELSE @]
       ELSE rd' = [rd EXCEPT ![r].pc = "store"]
    /\ UNCHANGED <<dirs, files, tars, tarFS, closed, up, sw, last, hist, faults, now, legacy>>

\* s.tarFS[date] = tfs under the write lock.
CacheStore(r) ==
    /\ rd[r].pc = "store"
    /\ tarFS' = Put(tarFS, rd[r].date, rd[r].tfs)
    /\ rd' = [rd EXCEPT ![r].pc = "use"]
    /\ UNCHANGED <<dirs, files, tars, closed, up, sw, last, hist, faults, now, legacy>>

\* strings.TrimPrefix(path, date+"/")
TrimPrefix(path, date) == IF path[1] = date THEN path[2] ELSE path[1] \o "/" \o path[2]

\* GetFile: tfs.Get(filepath.Join(date, name)) and io.Copy;
\* ListFiles: tfs.EntryPaths() with the month prefix trimmed.
CacheUse(r) ==
    /\ rd[r].pc = "use"
    /\ IF rd[r].op = "get"
       THEN \E out \in TarGet(rd[r].tfs, <<rd[r].date, rd[r].name>>) :
                rd' = [rd EXCEPT ![r].pc = "done", ![r].code = out.code, ![r].body = out.body]
       ELSE rd' = [rd EXCEPT ![r].pc = "done", ![r].code = 201,
                             ![r].names = {TrimPrefix(p, rd[r].date) : p \in EntryPaths(rd[r].tfs)}]
    /\ UNCHANGED <<dirs, files, tars, tarFS, closed, up, sw, last, hist, faults, now, legacy>>

\* The response is sent; the handler returns.
Respond(r) ==
    /\ rd[r].pc = "done"
    /\ rd' = [rd EXCEPT ![r] = IdleRd]
    /\ UNCHANGED <<dirs, files, tars, tarFS, closed, up, sw, last, hist, faults, now, legacy>>

GetFile(r, o, m, n) ==
    \/ GetBegin(r, o, m, n)
    \/ CacheLookup(r)
    \/ CacheBuild(r)
    \/ CacheScan(r)
    \/ CacheStore(r)
    \/ CacheUse(r)
    \/ Respond(r)

ListFiles(r, o, m) == ListBegin(r, o, m)

\* os.ReadDir(userDir): the entries of storage/o sorted by filename - for
\* each month its directory, then its .tar.bz2, then its .tar.<compress>.
UserDir(o) ==
    LET kinds == <<"dir", "bz2", compress>>
        all == [k \in 1..(Len(kinds) * Len(MonthOrder)) |->
                  [month |-> MonthOrder[((k - 1) \div Len(kinds)) + 1],
                   kind  |-> kinds[((k - 1) % Len(kinds)) + 1]]]
        present(e) == IF e.kind = "dir" THEN dirs[o][e.month]
                      ELSE IF e.kind = "bz2" THEN legacy[o][e.month].exists
                      ELSE tars[o][e.month].exists
    IN  SelectSeq(all, present)

\* storage/o exists once MkdirAll has made one of its month directories.
UserDirExists(o) == UserDir(o) # <<>>

\* ListMonths: the name of every directory entry, the two extensions removed
\* from the name of a file, is appended when it parses as a month.
ListMonths(r, o) ==
    /\ rd[r].pc = "idle"
    /\ LET req == [IdleRd EXCEPT !.op = "months", !.user = o, !.pc = "done"]
           listed == SelectSeq(UserDir(o), LAMBDA e : ~Parse(e.month).err)
       IN  IF UserDirExists(o)
           THEN rd' = [rd EXCEPT ![r] = [req EXCEPT !.code = 201,
                                            !.months = [k \in 1..Len(listed) |-> listed[k].month]]]
           ELSE rd' = [rd EXCEPT ![r] = [req EXCEPT !.code = 500]]
    /\ UNCHANGED <<dirs, files, tars, tarFS, closed, up, sw, last, hist, faults, now, legacy>>

\* ---------------------------------------------------------------- rotation
Sorted(order, S) == SelectSeq(order, LAMBDA x : x \in S)

Fault(kind) ==
    /\ faults < MaxFaults
    /\ faults' = faults + 1
    /\ hist' = [hist EXCEPT !.fault = IF @ = "" THEN kind ELSE @]

\* CompressAll(now, stale): then := now.Add(-stale); os.ReadDir(s.storage).
SweepBegin ==
    /\ sw.pc = "idle"
    /\ hist.sweeps < MaxSweeps
    /\ sw' = [IdleSw EXCEPT !.pc = "user", !.users = OwnerOrder,
                             !.then = {m \in Months : Stale(now, staleAfter, m)}]
    /\ hist' = [hist EXCEPT !.eligible = {<<o, m>> \in Owners \X Months : dirs[o][m] /\ m \in closed},
                            !.tried = {}, !.sweeps = @ + 1]
    /\ UNCHANGED <<dirs, files, tars, tarFS, closed, up, rd, last, faults, now, legacy>>

\* The next user directory: os.ReadDir(userPath), keeping the directories
\* named YYYY-MM with dateName < thenName; after the last one CompressAll returns.
SweepUser ==
    /\ sw.pc = "user"
    /\ IF sw.users = <<>>
       THEN sw' = IdleSw
       ELSE LET o == Head(sw.users)
            IN  sw' = [sw EXCEPT !.pc = "date", !.users = Tail(@), !.user = o,
                                 !.dates = Sorted(MonthOrder, {m \in sw.then : dirs[o][m]})]
    /\ UNCHANGED <<dirs, files, tars, tarFS, closed, up, rd, last, hist, faults, now, legacy>>

\* The next month directory of the user: tarfs.CompressAndRemove is called.
SweepDate ==
    /\ sw.pc = "date"
    /\ IF sw.dates = <<>>
       THEN /\ sw' = [sw EXCEPT !.pc = "user", !.user = "", !.date = ""]
            /\ UNCHANGED hist
       ELSE LET o == sw.user
                m == Head(sw.dates)
            IN  /\ sw' = [sw EXCEPT !.pc = "create", !.dates = Tail(@), !.date = m,
                                    !.err = FALSE, !.bad = {}, !.open = {}, !.ret = ""]
                /\ hist' = [hist EXCEPT !.tried = @ \cup {<<o, m>>},
                                        !.rot[o][m] = "running",
                                        !.src[o][m] = files[o][m],
                                        !.had[o][m] = tars[o][m],
                                        !.dir[o][m] = dirs[o][m],
                                        !.fault = "", !.closes = <<>>]
    /\ UNCHANGED <<dirs, files, tars, tarFS, closed, up, rd, last, faults, now, legacy>>

\* CompressAndRemove / CompressDir hand a result back to their caller.
Return(ret) ==
    /\ sw' = [sw EXCEPT !.pc = "ret", !.ret = ret, !.walk = <<>>, !.open = {}, !.bad = {}, !.err = FALSE]
    /\ hist' = [hist EXCEPT !.rot[sw.user][sw.date] = IF ret = "ok" THEN "ok" ELSE "failed"]

\* CompressDir: os.Stat(tarPath) finds the container and returns nil;
\* otherwise os.Create(tarPath), the compressor and the tar writer are set up
\* and filepath.Walk reads the names of the source directory.
RotCreate ==
    LET o == sw.user
        m == sw.date
    IN  /\ sw.pc = "create"
        /\ IF tars[o][m].exists
           THEN /\ sw' = [sw EXCEPT !.pc = "remove"]
                /\ UNCHANGED tars
           ELSE /\ tars' = [tars EXCEPT ![o][m] = [exists |-> TRUE, entries |-> <<>>, disk |-> "empty"]]
                /\ sw' = [sw EXCEPT !.pc = "walk", !.open = {"tw", "zw", "f"},
                                    !.walk = Sorted(PathOrder, DOMAIN files[o][m])]
        /\ UNCHANGED <<dirs, files, tarFS, closed, up, rd, last, hist, faults, now, legacy>>

\* os.Create(tarPath) fails: CompressDir returns the error.
RotCreateFault ==
    /\ sw.pc = "create"
    /\ ~tars[sw.user][sw.date].exists
    /\ faults < MaxFaults
    /\ faults' = faults + 1
    /\ sw' = [sw EXCEPT !.pc = "ret", !.ret = "err"]
    /\ hist' = [hist EXCEPT !.fault = "create", !.rot[sw.user][sw.date] = "failed"]
    /\ UNCHANGED <<dirs, files, tars, tarFS, closed, up, rd, last, now, legacy>>

\* The walk function on one regular file: header (hdr.Name = relPath) and
\* payload go to the tar writer.  The compressor decides when compressed
\* bytes reach the file (flush).
RotFile(flush) ==
    LET o == sw.user
        m == sw.date
        p == Head(sw.walk)
    IN  /\ sw.pc = "walk"
        /\ sw.walk # <<>>
        /\ tars' = [tars EXCEPT ![o][m].entries =
                        Append(@, [name |-> <<m, p>>, type |-> "reg",
                                   size |-> IF p \in DOMAIN files[o][m] THEN Len(files[o][m][p]) ELSE 0,
                                   data |-> IF p \in DOMAIN files[o][m] THEN files[o][m][p] ELSE <<>>]),
                                  ![o][m].disk = IF flush THEN "partial" ELSE @]
        /\ sw' = [sw EXCEPT !.walk = Tail(@)]
        /\ UNCHANGED <<dirs, files, tarFS, closed, up, rd, last, hist, faults, now, legacy>>

\* The walk function fails on one file and Walk returns the error:
\*   "walk":  the source cannot be examined (err of the callback), nothing written;
\*   "open":  the header was written, os.Open(path) fails, no payload follows;
\*   "write": tw.WriteHeader or io.Copy fails because the container cannot be
\*            written: tar writer and compressor are left in an error state.
RotFileFault(kind) ==
    LET o == sw.user
        m == sw.date
        p == Head(sw.walk)
    IN  /\ sw.pc = "walk"
        /\ sw.walk # <<>>
        /\ Fault(kind)
        /\ tars' = IF kind = "open"
                   THEN [tars EXCEPT ![o][m].entries =
                            Append(@, [name |-> <<m, p>>, type |-> "reg",
                                       size |-> Len(files[o][m][p]), data |-> <<>>])]
                   ELSE tars
        /\ sw' = [sw EXCEPT !.pc = "close", !.walk = <<>>, !.err = TRUE,
                            !.bad = IF kind = "write" THEN {"tw", "zw"}
                                    ELSE IF kind = "open" /\ Len(files[o][m][p]) > 0 THEN {"tw"}
                                    ELSE {}]
        /\ UNCHANGED <<dirs, files, tarFS, closed, up, rd, last, now, legacy>>

\* Walk returned nil: CompressDir returns nil and its deferred closes run.
RotWalked ==
    /\ sw.pc = "walk"
    /\ sw.walk = <<>>
    /\ sw' = [sw EXCEPT !.pc = "close"]
    /\ UNCHANGED <<dirs, files, tars, tarFS, closed, up, rd, last, hist, faults, now, legacy>>

\* The deferred closes of CompressDir run last-registered first:
\* tw.Close(), then the compressor's Close(), then f.Close().
CloseOrder == <<"tw", "zw", "f">>

\* The closes run in the order of registration: f first, tw last.
NextCloseOuterFirst == Sorted(CloseOrder, sw.open)[Cardinality(sw.open)]

NextClose == Head(Sorted(CloseOrder, sw.open))

\* One deferred close; its error is discarded (_ = w.Close()).  The stream in
\* the file is complete once the compressor has been closed without error.
RotClose(ok) ==
    LET o == sw.user
        m == sw.date
        w == NextClose
        fine == ok /\ w \notin sw.bad
    IN  /\ sw.pc = "close"
        /\ sw.open # {}
        /\ IF ok THEN UNCHANGED faults ELSE faults < MaxFaults /\ faults' = faults + 1
        /\ hist' = [hist EXCEPT !.closes = Append(@, w),
                                !.fault = IF ~ok /\ @ = "" THEN w ELSE @]
        /\ \E torn \in BOOLEAN :
              tars' = [tars EXCEPT ![o][m].disk =
                          IF w = "zw" /\ fine THEN "complete"
                          ELSE IF w = "zw" /\ ~ok /\ torn THEN "partial"
                          ELSE IF w = "f" /\ ~ok /\ @ = "complete" THEN "partial"
                          ELSE @]
        /\ sw' = [sw EXCEPT !.open = @ \ {w},
                            !.bad = IF w = "tw" /\ ~ok THEN @ \cup {"tw", "zw"} ELSE @]
        /\ UNCHANGED <<dirs, files, tarFS, closed, up, rd, last, now, legacy>>

\* CompressDir has returned: CompressAndRemove returns its error, or goes on
\* to os.RemoveAll(filepath.Join(dataDir, date)).
RotClosed ==
    /\ sw.pc = "close"
    /\ sw.open = {}
    /\ IF sw.err
       THEN Return("err")
       ELSE /\ sw' = [sw EXCEPT !.pc = "remove"]
            /\ UNCHANGED hist
    /\ UNCHANGED <<dirs, files, tars, tarFS, closed, up, rd, last, faults, now, legacy>>

\* os.RemoveAll: unlink one entry of the directory, or remove the emptied
\* directory and return nil.  A descriptor open on an unlinked file keeps it.
RotRemove ==
    LET o == sw.user
        m == sw.date
    IN  /\ sw.pc = "remove"
        /\ IF DOMAIN files[o][m] # {}
           THEN \E p \in DOMAIN files[o][m] :
                    /\ files' = [files EXCEPT ![o][m] = Del(@, p)]
                    /\ up' = [v \in Uploaders |->
                                IF StoragePath(v)[1] = o /\ StoragePath(v)[2] = m /\ up[v].fd = p
                                THEN [up[v] EXCEPT !.fd = ""] ELSE up[v]]
                    /\ UNCHANGED <<dirs, sw, hist, now, legacy>>
           ELSE /\ dirs' = [dirs EXCEPT ![o][m] = FALSE]
                /\ Return("ok")
                /\ UNCHANGED <<files, up, now, legacy>>
        /\ UNCHANGED <<tars, tarFS, closed, rd, last, faults, now, legacy>>

\* os.RemoveAll fails: CompressAndRemove returns the error.
RotRemoveFault ==
    /\ sw.pc = "remove"
    /\ faults < MaxFaults
    /\ faults' = faults + 1
    /\ sw' = [sw EXCEPT !.pc = "ret", !.ret = "err"]
    /\ hist' = [hist EXCEPT !.fault = IF @ = "" THEN "remove" ELSE @,
                            !.rot[sw.user][sw.date] = "failed"]
    /\ UNCHANGED <<dirs, files, tars, tarFS, closed, up, rd, last, now, legacy>>

\* CompressAll after CompressAndRemove: an error is returned at once
\* (return nil, err); otherwise the tarball is noted and the loop goes on.
SweepRet ==
    /\ sw.pc = "ret"
    /\ IF sw.ret = "err"
       THEN sw' = IdleSw
       ELSE sw' = [sw EXCEPT !.pc = "date", !.ret = "", !.date = ""]
    /\ UNCHANGED <<dirs, files, tars, tarFS, closed, up, rd, last, hist, faults, now, legacy>>

CompressDir ==
    \/ RotCreate
    \/ RotCreateFault
    \/ \E flush \in BOOLEAN : RotFile(flush)
    \/ \E kind \in {"walk", "open", "write"} : RotFileFault(kind)
    \/ RotWalked
    \/ \E ok \in BOOLEAN : RotClose(ok)

CompressAndRemove ==
    \/ CompressDir
    \/ RotClosed
    \/ RotRemove
    \/ RotRemoveFault

CompressAll ==
    \/ SweepBegin
    \/ SweepUser
    \/ SweepDate
    \/ CompressAndRemove
    \/ SweepRet

\* ------------------------------------------------------------------- time
\* The clock passes the point where the oldest open month is both outside
\* the upload window and older than now - staleAfter.  That takes months:
\* no request and no sweep is still running from before.
Tick(m) ==
    /\ m \notin closed
    /\ \A k \in 1..Len(MonthOrder) :
          MonthOrder[k] = m => \A j \in 1..(k - 1) : MonthOrder[j] \in closed
    /\ \A u \in Uploaders : up[u].pc = "idle"
    /\ \A r \in Readers : rd[r].pc = "idle"
    /\ sw.pc = "idle"
    /\ closed' = closed \cup {m}
    /\ now' = StaleFrom(m)
    /\ UNCHANGED <<dirs, files, tars, tarFS, up, rd, sw, last, hist, faults, legacy>>

\* The clock values a sweep can run at: midnight of every day from the month
\* after the last month until both months are older than now - staleAfter.
SweepClock ==
    {c \in [y : {2025}, m : 3..6, d : 1..31, t : {0}] :
        /\ c.d <= DaysIn(c.y, c.m)
        /\ c.m = 6 => c.d <= 5}

\* Time passes to a later instant t while no request and no sweep is running.
\* The sweeps of one behaviour run at one instant: time passes before the first.
Pass(t) ==
    /\ Before(now, t)
    /\ hist.sweeps = 0
    /\ \A u \in Uploaders : up[u].pc = "idle"
    /\ \A r \in Readers : rd[r].pc = "idle"
    /\ sw.pc = "idle"
    /\ now' = t
    /\ closed' = {m \in Months : Stale(t, staleAfter, m)}
    /\ UNCHANGED <<dirs, files, tars, tarFS, up, rd, sw, last, hist, faults, legacy>>

\* ------------------------------------------------------------ specification
Index(order, x) == CHOOSE i \in 1..Len(order) : order[i] = x

\* The request bodies are labels: the body names the client that sent it.
BodyOf(who, order) == ((Index(order, who) - 1) % NumBodies) + 1

UploaderOrder == <<"u1", "u2">>

\* The whole service around one month: each owner uploads its own body under
\* one name and every upload runs to its end, the month goes stale, sweeps
\* rotate it, and requests are served all along.
Next ==
    \/ \E o \in Owners : UploadBegin(UploaderOrder[1], o, MonthOrder[1], "a", BodyOf(o, OwnerOrder))
    \/ UploadCreate(UploaderOrder[1])
    \/ UploadCopy(UploaderOrder[1])
    \/ UploadRename(UploaderOrder[1])
    \/ \E o \in Owners : GetFile(ReaderOrder[1], o, MonthOrder[1], "a")
    \/ \E o \in Owners : ListFiles(ReaderOrder[1], o, MonthOrder[1])
    \/ \E o \in Owners : ListMonths(ReaderOrder[1], o)
    \/ CompressAll
    \/ Tick(MonthOrder[1])

Spec == Init /\ [][Next]_vars

\* Concurrent uploads to one key of one owner's open month: two handlers,
\* each with its own body.
NextUpload ==
    \E u \in Uploaders : UploadLog(u, OwnerOrder[1], MonthOrder[1], "a", BodyOf(u, UploaderOrder))

SpecUpload == Init /\ [][NextUpload]_vars

\* One upload at a time into one owner's open month, under either name and
\* with either body, while gets and listings are served.
NextServe ==
    \/ \E n \in Names, b \in 1..NumBodies :
          UploadLog(UploaderOrder[1], OwnerOrder[1], MonthOrder[1], n, b)
    \/ \E n \in Names : GetBegin(ReaderOrder[1], OwnerOrder[1], MonthOrder[1], n)
    \/ ListBegin(ReaderOrder[1], OwnerOrder[1], MonthOrder[1])
    \/ CacheLookup(ReaderOrder[1]) \/ CacheBuild(ReaderOrder[1]) \/ Respond(ReaderOrder[1])

SpecServe == Init /\ [][NextServe]_vars

\* Uploads arriving at any time of the calendar around the two months: each
\* request is validated against the clock and is rejected or carried out.
InitWindow == \E t \in Clock : Start(t, NoArchives, NoArchives)

RejectCodes == {"unauthorized", "missing_headers", "invalid_date", "date_out_of_range"}

NextWindow ==
    \/ \E m \in Months : UploadBegin(UploaderOrder[1], OwnerOrder[1], m, "a", 1)
    \/ UploadCreate(UploaderOrder[1])
    \/ UploadCopy(UploaderOrder[1])
    \/ UploadRename(UploaderOrder[1])
    \/ \E date \in Dates, n \in {"a", ""}, why \in RejectCodes :
          UploadReject(UploaderOrder[1], OwnerOrder[1], date, n, why)
    \/ UploadRejected(UploaderOrder[1])

SpecWindow == InitWindow /\ [][NextWindow]_vars

\* A storage root that holds, from an earlier installation, the first owner's
\* first month as a complete .tar.bz2 archive with one member.
OldArchive ==
    [exists |-> TRUE, disk |-> "complete",
     entries |-> <<[name |-> <<MonthOrder[1], "a">>, type |-> "reg",
                    size |-> BodyLen, data |-> Body(1)]>>]

WithLegacy == [NoArchives EXCEPT ![OwnerOrder[1]][MonthOrder[1]] = OldArchive]

InitLegacy == Start(StartTime, WithLegacy, NoArchives)

\* The owner reads the archived month while uploading into the current one.
NextLegacy ==
    \/ \E b \in 1..NumBodies : UploadLog(UploaderOrder[1], OwnerOrder[1], MonthOrder[2], "a", b)
    \/ \E n \in Names : GetBegin(ReaderOrder[1], OwnerOrder[1], MonthOrder[1], n)
    \/ ListBegin(ReaderOrder[1], OwnerOrder[1], MonthOrder[1])
    \/ ListMonths(ReaderOrder[1], OwnerOrder[1])
    \/ CacheLookup(ReaderOrder[1])
    \/ CacheBuild(ReaderOrder[1])
    \/ Respond(ReaderOrder[1])

SpecLegacy == InitLegacy /\ [][NextLegacy]_vars

\* Any well-formed container as the first owner's first month: up to
\* MaxEntries entries, regular files and others, names free to repeat.
EntryNames == {<<MonthOrder[1], n>> : n \in Names}

RegEntries ==
    {[name |-> nm, type |-> "reg", size |-> BodyLen, data |-> Body(b)] :
        nm \in EntryNames, b \in 1..NumBodies}

DirEntries == {[name |-> nm, type |-> "dir", size |-> 0, data |-> <<>>] : nm \in EntryNames}

Containers ==
    {[exists |-> TRUE, disk |-> "complete", entries |-> es] :
        es \in UNION {[1..k -> RegEntries \cup DirEntries] : k \in 0..MaxEntries}}

InitIndex ==
    \E c \in Containers :
        Start(StaleFrom(MonthOrder[1]), NoArchives,
              [NoArchives EXCEPT ![OwnerOrder[1]][MonthOrder[1]] = c])

\* The owner's gets and listings of the archived month, one at a time.
NextIndex ==
    \/ \E n \in Names : GetBegin(ReaderOrder[1], OwnerOrder[1], MonthOrder[1], n)
    \/ ListBegin(ReaderOrder[1], OwnerOrder[1], MonthOrder[1])
    \/ CacheLookup(ReaderOrder[1])
    \/ CacheBuild(ReaderOrder[1])
    \/ CacheScan(ReaderOrder[1])
    \/ CacheStore(ReaderOrder[1])
    \/ CacheUse(ReaderOrder[1])
    \/ Respond(ReaderOrder[1])

SpecIndex == InitIndex /\ [][NextIndex]_vars

\* Two requests for the archived month at once: a listing and a get, each
\* looking up, building and storing the index on its own.
NextCache ==
    \/ ListBegin(ReaderOrder[1], OwnerOrder[1], MonthOrder[1])
    \/ GetBegin(ReaderOrder[2], OwnerOrder[1], MonthOrder[1], "a")
    \/ \E r \in Readers :
          \/ CacheLookup(r)
          \/ CacheBuild(r)
          \/ CacheScan(r)
          \/ CacheStore(r)
          \/ CacheUse(r)
          \/ Respond(r)

SpecCache == InitIndex /\ [][NextCache]_vars

\* The TarFS that NewTarFS returns for a container of content c at path.
Scanned(c, path) ==
    [path    |-> path,
     indices |-> [nm \in MemberNames(c) |-> LastOrdinal(c, nm)],
     sizes   |-> [nm \in MemberNames(c) |-> c.entries[LastOrdinal(c, nm) + 1].size]]

\* What the container file can hold by the time of a later request: any
\* well-formed container, any of them cut short, or no file at all.
Replaced == Containers \cup {[c EXCEPT !.disk = "partial"] : c \in Containers} \cup {NoTar}

\* Every index an earlier request can have built of the first owner's first month.
Indexes == {Scanned(c, <<OwnerOrder[1], MonthOrder[1]>>) : c \in Containers}

\* The cache holds the index of the container an earlier request found, and
\* the container file has been replaced, truncated or removed since.
InitFetch ==
    \E fs \in Indexes, d \in Replaced :
        Started(StaleFrom(MonthOrder[1]), NoArchives,
                [NoArchives EXCEPT ![OwnerOrder[1]][MonthOrder[1]] = d],
                Put(<<>>, MonthOrder[1], fs))

\* The owner's gets of the archived month, served from the cached index.
NextFetch ==
    \/ \E n \in Names : GetBegin(ReaderOrder[1], OwnerOrder[1], MonthOrder[1], n)
    \/ CacheLookup(ReaderOrder[1])
    \/ CacheUse(ReaderOrder[1])
    \/ Respond(ReaderOrder[1])

SpecFetch == InitFetch /\ [][NextFetch]_vars

\* X-File-Name values of the first owner: a plain name, and two names that
\* lead out of the month directory.
FileNames == {"a", "../2025-02/a", "../../o2/2025-01/a"}

\* The second owner uploads a file into the first month; the first owner
\* uploads under any of the names into either month; one upload at a time,
\* and both owners read the file of their first month.
NextTraversal ==
    \/ UploadBegin(UploaderOrder[1], OwnerOrder[2], MonthOrder[1], "a", 1)
    \/ \E m \in Months, n \in FileNames : UploadBegin(UploaderOrder[1], OwnerOrder[1], m, n, 2)
    \/ UploadCreate(UploaderOrder[1])
    \/ UploadCopy(UploaderOrder[1])
    \/ UploadRename(UploaderOrder[1])
    \/ \E o \in Owners : GetBegin(ReaderOrder[1], o, MonthOrder[1], "a")
    \/ CacheLookup(ReaderOrder[1])
    \/ CacheBuild(ReaderOrder[1])
    \/ Respond(ReaderOrder[1])

SpecTraversal == Init /\ [][NextTraversal]_vars

\* Uploads and sweeps along the calendar: the first owner uploads into both
\* months while they are accepted, time passes day by day or in leaps, and
\* a sweep runs at any instant in between.
NextRetention ==
    \/ \E m \in Months : UploadBegin(UploaderOrder[1], OwnerOrder[1], m, "a", 1)
    \/ UploadCreate(UploaderOrder[1])
    \/ UploadCopy(UploaderOrder[1])
    \/ UploadRename(UploaderOrder[1])
    \/ \E m \in Months :
          UploadReject(UploaderOrder[1], OwnerOrder[1], m, "a", "date_out_of_range")
    \/ UploadRejected(UploaderOrder[1])
    \/ \E t \in SweepClock : Pass(t)
    \/ CompressAll

SpecRetention == Init /\ [][NextRetention]_vars

\* --------------------------------------------------------------- properties
Done(r) == rd[r].pc = "done"

\* C1: rotation never loses data - whatever uploads, gets, listings and
\* sweeps (failed ones and repeated ones included) came before, a get for a
\* key whose latest upload was answered 201 returns that upload's body whole.
C1_NoDataLoss ==
    \A r \in Readers :
        Done(r) /\ rd[r].op = "get" /\ rd[r].want # 0
            => rd[r].code = 200 /\ rd[r].body = Body(rd[r].want)

BeforeFinal == {"create", "walk", "open", "write", "tw", "zw", "f"}

\* C2: a rotate call in which creating the container, walking the source,
\* writing a header or payload, or closing the tar writer, the compressor or
\* the file failed returns an error and leaves the source directory with all
\* its files as it was.
C2_FailedRotateKeepsSource ==
    sw.pc = "ret" /\ hist.fault \in BeforeFinal
        => /\ sw.ret = "err"
           /\ dirs[sw.user][sw.date]
           /\ files[sw.user][sw.date] = hist.src[sw.user][sw.date]

\* C3: a rotate call made when the container already exists is a no-op and
\* not an error: the container is not rewritten and the live directory that
\* exists at that moment, with its files, stays as it is.
C3_RotateExistingIsNoOp ==
    \A o \in Owners, m \in Months :
        hist.rot[o][m] # "none" /\ hist.had[o][m].exists
            => /\ hist.rot[o][m] # "failed"
               /\ tars[o][m] = hist.had[o][m]
               /\ dirs[o][m] = hist.dir[o][m]
               /\ files[o][m] = hist.src[o][m]

\* C4: after a successful rotation of (O, M) the live directory is gone and
\* a get of any name that was live before the rotation returns the bytes the
\* live file held.
C4_RotatedReadsSame ==
    /\ \A o \in Owners, m \in Months : hist.rot[o][m] = "ok" => ~dirs[o][m]
    /\ \A r \in Readers :
          Done(r) /\ rd[r].op = "get" /\ rd[r].rot = "ok"
              => rd[r].code = 200 /\ rd[r].body = rd[r].orig

\* C5: the index a get or list-files request of owner O for month M works
\* with is the index of O's own container for M, whoever asked first.
C5_OwnIndex ==
    \A r \in Readers :
        rd[r].pc \in {"use", "done"} /\ rd[r].tfs # NoFS
            => rd[r].tfs.path = <<rd[r].user, rd[r].date>>

\* C6: a sweep that has returned has called rotate on every (owner, month)
\* that was eligible when it began, also when one of the calls failed.
C6_SweepTriesAll ==
    sw.pc = "idle" /\ hist.sweeps > 0 => hist.eligible \subseteq hist.tried

\* C7: with two uploads racing on one key, the file at the target path is
\* at every moment absent or one complete body, and once both handlers have
\* returned it is the body of the upload whose rename succeeded last.
C7_AtomicReplace ==
    \A o \in Owners, m \in Months :
        /\ "a" \in DOMAIN files[o][m] => files[o][m]["a"] \in Bodies
        /\ (\A u \in Uploaders : up[u].pc = "idle") /\ last[o][m]["a"] # 0
              => "a" \in DOMAIN files[o][m] /\ files[o][m]["a"] = Body(last[o][m]["a"])

Uploaded(o, m, p) == p \in Names /\ last[o][m][p] # 0

\* C8: no partial upload is visible - list-files names only names whose
\* upload was answered 201, get returns only whole bodies, and once no upload
\* is running the live directory holds nothing but files of such uploads.
C8_NoPartialVisible ==
    /\ \A r \in Readers :
          /\ Done(r) /\ rd[r].op = "list" /\ rd[r].code = 201
                => \A p \in rd[r].names : Uploaded(rd[r].user, rd[r].date, p)
          /\ Done(r) /\ rd[r].op = "get" /\ rd[r].code = 200 => rd[r].body \in Bodies
    /\ (\A u \in Uploaders : up[u].pc = "idle")
          => \A o \in Owners, m \in Months : \A p \in DOMAIN files[o][m] : Uploaded(o, m, p)

\* C9: a get issued after an upload of body P to its key was answered 201,
\* and before the month is rotated, returns exactly P.
C9_GetReturnsUpload ==
    \A r \in Readers :
        /\ Done(r) /\ rd[r].op = "get" /\ rd[r].want # 0
        /\ hist.rot[rd[r].user][rd[r].date] = "none"
        /\ ~tars[rd[r].user][rd[r].date].exists
        => rd[r].code = 200 /\ rd[r].body = Body(rd[r].want)

\* C10: a get of a name that was live when the rotation of its month began,
\* issued while that rotation runs or after it has finished, returns the
\* bytes the live file held, whatever was served in between.
C10_GetAcrossRotation ==
    \A r \in Readers :
        Done(r) /\ rd[r].op = "get" /\ rd[r].rot # "none"
            => rd[r].code = 200 /\ rd[r].body = rd[r].orig

\* The container of (o, m) can be read to its end and has a regular member
\* m/n; MemberData is the payload of the last such member.
HasMember(o, m, n) ==
    LET c == tars[o][m]
    IN  /\ c.exists /\ c.disk = "complete"
        /\ \A i \in 1..Len(c.entries) : ~Truncated(c.entries[i])
        /\ <<m, n>> \in MemberNames(c)

MemberData(o, m, n) == tars[o][m].entries[LastOrdinal(tars[o][m], <<m, n>>) + 1].data

\* C11: a get answers with the live file's bytes whenever the live file
\* exists, with the bytes of the owner's archive member when there is no live
\* file and the member exists, and with not-found when neither exists; no
\* step of a get changes the filesystem.
C11_GetPrecedence ==
    [][\A r \in Readers :
        LET o == rd'[r].user
            m == rd'[r].date
            n == rd'[r].name
        IN  rd'[r].pc # rd[r].pc /\ rd'[r].op = "get" =>
              /\ UNCHANGED <<dirs, files, tars, legacy>>
              /\ rd[r].pc = "idle" /\ n \in DOMAIN files[o][m]
                    => rd'[r].pc = "done" /\ rd'[r].code = 200 /\ rd'[r].body = files[o][m][n]
              /\ rd[r].pc \notin {"idle", "done"} /\ rd'[r].pc = "done" /\ n \notin DOMAIN files[o][m]
                    => IF HasMember(o, m, n)
                       THEN rd'[r].code = 200 /\ rd'[r].body = MemberData(o, m, n)
                       ELSE rd'[r].code = 404]_vars

Count(seq, x) == Cardinality({k \in 1..Len(seq) : seq[k] = x})

\* C12: list-months of owner O returns every month for which O has a live
\* directory or a container exactly once and no other month, whatever
\* uploads and rotations came before and also while a rotation is running.
C12_MonthsOnceEach ==
    [][\A r \in Readers :
        rd[r].pc = "idle" /\ rd'[r].op = "months" =>
            \A m \in Months :
                Count(rd'[r].months, m) =
                    IF \/ dirs[rd'[r].user][m]
                       \/ tars[rd'[r].user][m].exists
                       \/ legacy[rd'[r].user][m].exists
                    THEN 1 ELSE 0]_vars

\* Months counted from year 0, and the month the day after t falls in.
MonthNo(y, m) == 12 * y + m
TomorrowMonthNo(t) == MonthNo(t.y, t.m) + (IF t.d = DaysIn(t.y, t.m) THEN 1 ELSE 0)

InClaimedWindow(t, date) ==
    LET no == MonthNo(Parse(date).time.y, Parse(date).time.m)
    IN  no >= MonthNo(t.y, t.m) - 1 /\ no <= TomorrowMonthNo(t)

C17_RejectedUploadNoChange ==
    [][\A u \in Uploaders :
        \/ up[u].pc = "idle" /\ up'[u].pc = "rejected"
        \/ up[u].pc = "rejected" /\ up'[u].pc = "idle"
        => UNCHANGED <<dirs, files, tars, legacy, tarFS>>]_vars

\* An upload for January has been rejected as out of range while February
\* already has its directory and a file.
C17_Witness ==
    \E u \in Uploaders :
        /\ up[u].pc = "rejected" /\ up[u].err = "date_out_of_range" /\ up[u].date = "2025-01"
        /\ dirs[up[u].user]["2025-02"] /\ "a" \in DOMAIN files[up[u].user]["2025-02"]

\* C14: the server cannot be constructed with bz2 as its rotation format,
\* and a month that exists as a bz2 archive is readable: get returns its
\* members' bytes and list-files returns their names.
C14_LegacyReadable ==
    /\ New("bz2").err
    /\ \A r \in Readers :
          LET c == legacy[rd[r].user][rd[r].date]
          IN  Done(r) /\ rd[r].op \in {"get", "list"} /\ ~rd[r].live /\ c.exists =>
                IF rd[r].op = "list"
                THEN rd[r].code = 201 /\ rd[r].names = {nm[2] : nm \in MemberNames(c)}
                ELSE <<rd[r].date, rd[r].name>> \in MemberNames(c) =>
                        /\ rd[r].code = 200
                        /\ rd[r].body = c.entries[LastOrdinal(c, <<rd[r].date, rd[r].name>>) + 1].data

\* The finished index of container c holds exactly c's regular member names,
\* each with the ordinal and the size of its last regular occurrence.
IndexOf(c, fs) ==
    /\ DOMAIN fs.indices = MemberNames(c)
    /\ DOMAIN fs.sizes = MemberNames(c)
    /\ \A nm \in MemberNames(c) :
          /\ fs.indices[nm] = LastOrdinal(c, nm)
          /\ fs.sizes[nm] = c.entries[LastOrdinal(c, nm) + 1].size

\* C15: the index of a container maps every name to its last regular-file
\* occurrence, also with repeated names and non-regular entries in between,
\* and fetch of a name returns exactly that occurrence's bytes.
C15_LastOccurrenceWins ==
    \A r \in Readers :
        LET c == tars[rd[r].user][rd[r].date]
            nm == <<rd[r].date, rd[r].name>>
        IN  /\ rd[r].pc \in {"store", "use"} => IndexOf(c, rd[r].tfs)
            /\ Done(r) /\ rd[r].op = "get" /\ nm \in MemberNames(c)
                  => rd[r].code = 200 /\ rd[r].body = c.entries[LastOrdinal(c, nm) + 1].data

\* C16: list-files answers with exactly the entry names of the live
\* directory when it exists; without a live directory, with exactly the
\* member names of the owner's own container, the month prefix removed; and
\* with not-found when there is neither a live directory nor a readable
\* container.
C16_ListFiles ==
    [][\A r \in Readers :
        LET o == rd'[r].user
            m == rd'[r].date
        IN  rd'[r].pc # rd[r].pc /\ rd'[r].op = "list" =>
              /\ rd[r].pc = "idle" /\ dirs[o][m]
                    => rd'[r].pc = "done" /\ rd'[r].code = 201 /\ rd'[r].names = DOMAIN files[o][m]
              /\ rd'[r].pc = "done" /\ ~dirs[o][m]
                    => IF NewTarFS(o, m).err
                       THEN rd'[r].code = 404
                       ELSE /\ rd'[r].code = 201
                            /\ rd'[r].names = {nm[2] : nm \in DOMAIN NewTarFS(o, m).fs.indices}]_vars

\* C18: whatever the interleaving of gets and listings that look up and
\* populate the cache, every index in the cache and every index a request
\* works with is the complete index of the container it was scanned from;
\* a second population puts a complete index in the place of a complete one.
C18_CacheCompleteIndex ==
    /\ \A d \in DOMAIN tarFS : IndexOf(tars[tarFS[d].path[1]][tarFS[d].path[2]], tarFS[d])
    /\ \A r \in Readers :
          rd[r].pc = "use" => IndexOf(tars[rd[r].tfs.path[1]][rd[r].tfs.path[2]], rd[r].tfs)

\* Both requests missed the cache and built the index of a container with
\* two member names; one has stored it and works with it, the other is
\* about to store its own.
C18_Witness ==
    /\ rd[ReaderOrder[1]].pc = "use"
    /\ rd[ReaderOrder[2]].pc = "store"
    /\ MonthOrder[1] \in DOMAIN tarFS
    /\ Cardinality(DOMAIN tarFS[MonthOrder[1]].indices) = 2

\* A rotate call (CompressAndRemove) is between its first and its last step.
Rotating == sw.pc \in {"create", "walk", "close", "remove"}

\* C19: whenever no rotate call is in progress - after any uploads and
\* sweeps, sweeps with a failed rotation included - no (owner, month) has a
\* live directory and a container at the same time.
C19_LiveOrArchived ==
    ~Rotating => \A o \in Owners, m \in Months : ~(dirs[o][m] /\ tars[o][m].exists)

\* The regular entries of container c named nm.
Members(c, nm) == {i \in 1..Len(c.entries) : IsReg(c.entries[i]) /\ c.entries[i].name = nm}

\* C20: when a rotate call of root/month has returned success, the container
\* holds exactly one member for every regular file the directory had, named
\* month/path and carrying that file's bytes, and no other member.
C20_ContainerHoldsDirectory ==
    sw.pc = "ret" /\ sw.ret = "ok" =>
        LET c == tars[sw.user][sw.date]
            src == hist.src[sw.user][sw.date]
        IN  /\ c.exists /\ c.disk = "complete"
            /\ \A i \in 1..Len(c.entries) :
                  /\ IsReg(c.entries[i])
                  /\ c.entries[i].name[1] = sw.date
                  /\ c.entries[i].name[2] \in DOMAIN src
            /\ \A p \in DOMAIN src :
                  /\ Cardinality(Members(c, <<sw.date, p>>)) = 1
                  /\ \A i \in Members(c, <<sw.date, p>>) : c.entries[i].data = src[p]

\* Days from the first of January 2024 to the first of month m of year y.
RECURSIVE MonthStart(_, _)
MonthStart(y, m) ==
    IF y = 2024 /\ m = 1 THEN 0
    ELSE IF m = 1 THEN MonthStart(y - 1, 12) + DaysIn(y - 1, 12)
    ELSE MonthStart(y, m - 1) + DaysIn(y, m - 1)

DayNo(t) == MonthStart(t.y, t.m) + t.d - 1

\* The whole of month date lies before the instant t - window (in days).
EarlierThan(t, window, date) ==
    LET first == Parse(date).time
    IN  MonthStart(first.y, first.m) + DaysIn(first.y, first.m) <= DayNo(t) - window

\* A step of an upload handler.
UploadStep == \E u \in Uploaders : up'[u].pc # up[u].pc \/ up'[u].off # up[u].off

\* C21: a sweep at time now rotates exactly the live month directories, of
\* every owner, whose month lies wholly before now - staleAfter: it calls
\* rotate on no other directory, when it returns it has called rotate on
\* every such directory, and no step of it changes a directory, a file or
\* a container of any other (owner, month).
C21_SweepRotatesStale ==
    [][/\ \A o \in Owners, m \in Months :
             <<o, m>> \in hist'.tried => EarlierThan(now, staleAfter, m)
       /\ sw.pc # "idle" /\ sw'.pc = "idle" =>
             \A o \in Owners, m \in Months :
                dirs'[o][m] /\ EarlierThan(now, staleAfter, m) => <<o, m>> \in hist'.tried
       /\ ~UploadStep =>
             \A o \in Owners, m \in Months :
                (dirs'[o][m] # dirs[o][m] \/ files'[o][m] # files[o][m] \/ tars'[o][m] # tars[o][m])
                   => o = sw.user /\ m = sw.date /\ EarlierThan(now, staleAfter, m)]_vars

\* C22: whatever index is cached and whatever the container file holds by
\* now, a get served from the archive either fails or answers with the
\* payload of an entry of the container whose name is the requested path.
C22_FetchChecksName ==
    \A r \in Readers :
        Done(r) /\ rd[r].op = "get" /\ ~rd[r].live /\ rd[r].code = 200 =>
            LET c == tars[rd[r].tfs.path[1]][rd[r].tfs.path[2]]
            IN  \E i \in 1..Len(c.entries) :
                    /\ c.entries[i].name = <<rd[r].date, rd[r].name>>
                    /\ rd[r].body = c.entries[i].data

\* C23: when a rotate call removes a file of the source directory, or the
\* directory itself, none of its three writers is open, and those it had
\* opened were closed inner to outer: the archive writer, then the
\* compressor, then the container file.
C23_CloseBeforeRemove ==
    [][\A o \in Owners, m \in Months :
          \/ dirs[o][m] /\ ~dirs'[o][m]
          \/ ~UploadStep /\ DOMAIN files[o][m] \ DOMAIN files'[o][m] # {}
          => /\ sw.open = {}
             /\ hist.closes = IF hist.had[o][m].exists THEN <<>> ELSE <<"tw", "zw", "f">>]_vars

\* A rotate call that wrote the container itself has removed the files of
\* the source directory.
C23_Witness ==
    /\ sw.pc = "remove"
    /\ hist.closes = <<"tw", "zw", "f">>
    /\ hist.src[sw.user][sw.date] # <<>>
    /\ DOMAIN files[sw.user][sw.date] = {}

\* C24: with staleAfter of 93 days, at every instant no month that UploadLog
\* accepts is one that CompressAll rotates: the two tests exclude each other,
\* and a running sweep has selected no month that an upload arriving at the
\* same instant would be accepted for.
C24_AcceptedNotRotated ==
    /\ \A m \in Months : DateInRange(now, Parse(m).time) => ~Stale(now, staleAfter, m)
    /\ \A m \in sw.then : ~DateInRange(now, Parse(m).time)
    /\ Rotating => ~DateInRange(now, Parse(sw.date).time)

\* In March an upload for February is under way while a sweep goes through
\* the owner's directories and has left the February directory alone.
C24_Witness ==
    /\ now.m = 3
    /\ \E u \in Uploaders : up[u].pc = "create" /\ up[u].user = sw.user /\ up[u].date = "2025-02"
    /\ sw.pc = "date" /\ sw.dates = <<>>
    /\ dirs[sw.user]["2025-02"]
    /\ hist.tried = {}

\* C25: an upload by owner O for month M, whatever its file name, creates and
\* changes files beneath storage/O/M only: no step of the handler changes a
\* directory or a file of another owner or of another month of O, which is
\* what their gets and listings are answered from.
C25_UploadStaysInMonth ==
    [][\A u \in Uploaders :
          up'[u].pc # up[u].pc \/ up'[u].off # up[u].off =>
             LET req == IF up[u].pc = "idle" THEN up'[u] ELSE up[u]
             IN  \A o \in Owners, m \in Months :
                    o # req.user \/ m # req.date =>
                       files'[o][m] = files[o][m] /\ dirs'[o][m] = dirs[o][m]]_vars

\* The container is missing, cut short or malformed.
Broken(c) ==
    ~(c.exists /\ c.disk = "complete" /\ \A i \in 1..Len(c.entries) : ~Truncated(c.entries[i]))

\* C26: a get that fails because the container of its month is missing, cut
\* short or malformed stores nothing in the archive cache, and a get of a
\* member of a complete container of its owner's month succeeds, whatever
\* requests failed before it.
C26_FailureLeavesCache ==
    [][\A r \in Readers :
          LET o == rd[r].user
              m == rd[r].date
              n == rd[r].name
          IN  /\ (/\ rd[r].op = "get" /\ rd[r].pc = "store" /\ rd'[r].pc = "use"
                  /\ Broken(tars[o][m]) /\ <<m, n>> \notin DOMAIN rd[r].tfs.indices)
                    => tarFS' = tarFS
              /\ (/\ rd[r].op = "get" /\ rd[r].pc # "done" /\ rd'[r].pc = "done"
                  /\ ~rd'[r].live /\ HasMember(o, m, n))
                    => rd'[r].code = 200]_vars

\* Month m is in the answer list-months gives owner o in this state.
Listed(o, m) ==
    /\ UserDirExists(o)
    /\ \E k \in 1..Len(UserDir(o)) : UserDir(o)[k].month = m /\ ~Parse(m).err

\* C27: every month that list-months returns to its owner is retrievable:
\* list-files of that month does not answer not-found, also when the month
\* is listed for a container of another compression format or for a
\* container that is still being written.  (A month listed for its live
\* directory is answered from the directory.)
C27_ListedIsRetrievable ==
    [][\A r \in Readers :
          (/\ rd[r].op = "list" /\ rd[r].pc # "done" /\ rd'[r].pc = "done"
           /\ Listed(rd[r].user, rd[r].date) /\ ~dirs[rd[r].user][rd[r].date])
             => rd'[r].code = 201]_vars

====
